---- MODULE Spec2Model ----
(***************************************************************************)
(* Model of the useAuth hook (src/unnamed/part_000, lines 340-583): the    *)
(* client-side session controller of Aqua Farm Ledger, and of what is      *)
(* built around it: the query cache resets of AppContent and               *)
(* AuthCacheResetter, the tab navigator of Index with the Transactions     *)
(* screen, and the weekly-summary scripts.  Each part has its own          *)
(* specification (Spec, SpecCache, SpecScreens, SpecSummaries); the        *)
(* variables of the other parts keep their initial values in it.           *)
(*                                                                         *)
(* One step of the model is one turn of the JavaScript event loop: the     *)
(* synchronous code a handler runs from the moment a promise settles (or   *)
(* an event is delivered) up to its next await.  All the setState calls of *)
(* such a turn are applied together (React batches them).                  *)
(*                                                                         *)
(* The effect at lines 349-451 has an empty dependency list, so it runs    *)
(* once, after the first render, and the fetchProfile it calls is the one  *)
(* created by that first render: the `fetchingProfile` and `profile` that  *)
(* function reads are the first render's values (closureFetchingProfile,   *)
(* closureProfile), not the live state.  initializationCompleteRef and     *)
(* isMounted are read live.                                                *)
(***************************************************************************)
EXTENDS Naturals, FiniteSets, Sequences, TLC

\* ---------------------------------------------------------------- bounds
MaxNotifs == 2      \* auth notifications delivered in one run
MaxFetches == 2     \* profile lookups that may be in flight together
MaxSignOuts == 1    \* signOut() calls that may be in flight together
MaxUsers == 3       \* profiles fetched by a weekly-summary run
MaxExpenses == 2    \* expenses the Transactions screen is given

\* ---------------------------------------------------------------- values
None == "none"
Users == {"u1", "u2"}

\* A Session always carries its user (supabase-js Session.user): one
\* session per user, named after it.
Sessions == {"s1", "s2"}
UserOf(s) == IF s = "s1" THEN "u1" ELSE "u2"

\* Profile rows: the fields the controller reads (id, exists).  A null
\* profile is the record NoProfile, so that every value of `profile` is a
\* record.
Rows == [id : Users, exists : BOOLEAN]
Row(u, e) == [id |-> u, exists |-> e]
NoProfile == [id |-> None, exists |-> FALSE]

\* (event, session) pairs the auth client emits.
Notifications ==
    ({"SIGNED_IN", "TOKEN_REFRESHED"} \X Sessions)
    \cup ({"SIGNED_OUT", "INITIAL_SESSION"} \X {None})

VARIABLES
    user, session, profile,         \* useState, lines 341-343
    loading, fetchingProfile,       \* useState, lines 344-345
    signingOut,                     \* useState, line 346
    initializationComplete,         \* initializationCompleteRef.current
    isMounted,                      \* let isMounted, line 350
    init,                           \* position and locals of initializeAuth
    fetches,                        \* fetchProfile calls awaiting their lookup,
                                    \* each with its caller ("init" or the event)
    signOuts,                       \* signOut calls awaiting the remote call
    upd,                            \* position and locals of updateProfile
    notifs,                         \* notifications delivered so far
    ev,                             \* the handler turn that produced the state
    qc,                             \* queryClient's cache, App.tsx line 13
    resetter,                       \* AuthCacheResetter and its userIdRef
    activeTab, selectedPondId,      \* useState, Index.tsx lines 10-11
    txn,                            \* useState of Transactions, lines 24-29
    expenses,                       \* useExpenses() data, Transactions line 16
    run                             \* a weekly-summary run: its loop position

\* the controller's variables but `ev`
authState == <<user, session, profile, loading, fetchingProfile, signingOut,
               initializationComplete, isMounted, init, fetches, signOuts,
               upd, notifs>>
cacheVars == <<qc, resetter>>
screenVars == <<activeTab, selectedPondId, txn, expenses>>

vars == <<user, session, profile, loading, fetchingProfile, signingOut,
          initializationComplete, isMounted, init, fetches, signOuts, upd,
          notifs, ev, qc, resetter, activeTab, selectedPondId, txn, expenses,
          run>>

state == <<user, session, profile, loading, fetchingProfile, signingOut>>

\* ------------------------------------------------------- derived (569-579)
isAuthenticated == session # None

needsProfileNoSigningOut ==
    /\ session # None
    /\ (profile = NoProfile \/ ~profile.exists)
    /\ ~loading /\ ~fetchingProfile

needsProfile ==
    /\ session # None
    /\ (profile = NoProfile \/ ~profile.exists)
    /\ ~loading /\ ~fetchingProfile /\ ~signingOut

isFullyReady == session # None /\ profile # NoProfile /\ profile.exists

\* What AppContent renders, src/src/App.tsx lines 47-74.
Rendered ==
    IF loading THEN "loading"
    ELSE IF ~isAuthenticated THEN "signIn"
    ELSE IF needsProfile THEN "profileSetup"
    ELSE "main"

\* ------------------------------------------ first-render closure (349-451)
closureFetchingProfile == FALSE
closureProfile == NoProfile

\* ------------------------------------------------------------------ Init
Ev(op, arg) == [op |-> op, arg |-> arg]

Idle == [st |-> "idle"]

AuthInit ==
    /\ user = None /\ session = None /\ profile = NoProfile
    /\ loading = TRUE
    /\ fetchingProfile = FALSE
    /\ signingOut = FALSE
    /\ initializationComplete = FALSE
    /\ isMounted = TRUE
    /\ init = [pc |-> "getUser", user |-> None,
               getUser |-> "pending", getSession |-> "notcalled",
               lookup |-> "notcalled", sawSignedOut |-> FALSE,
               lastNotif |-> "none"]
    /\ fetches = [i \in 1..MaxFetches |-> Idle]
    /\ signOuts = 0
    /\ upd = [pc |-> "idle", user |-> None]
    /\ notifs = 0
    /\ ev = Ev("mount", "")

\* ------------------------------------------------------ shared fragments
ClearAuthKeepsLoading ==
    /\ session' = None
    /\ user' = None
    /\ profile' = NoProfile
    /\ UNCHANGED loading

\* lines 375-378, 390-393, 406-409, 412-415
ClearAuth ==
    /\ session' = None
    /\ user' = None
    /\ profile' = NoProfile
    /\ loading' = FALSE

\* the finally block of initializeAuth, line 418
\* (init.lastNotif is kept only while initializeAuth runs)
InitFinally(tag) ==
    /\ initializationComplete' = TRUE
    /\ init' = [tag EXCEPT !.pc = "done", !.lastNotif = "none"]

HasFreeSlot == \E i \in 1..MaxFetches : fetches[i].st = "idle"
FreeSlot == CHOOSE i \in 1..MaxFetches :
                /\ fetches[i].st = "idle"
                /\ \A j \in 1..(i - 1) : fetches[j].st # "idle"

Pending(u, origin) ==
    [st |-> "pending", userId |-> u, origin |-> origin, signedOut |-> FALSE]

InFlight == {i \in 1..MaxFetches : fetches[i].st = "pending"}

\* fetchProfile up to its await, lines 453-474, as called from the effect:
\* the guard reads the first render's fetchingProfile.
FetchProfileReturnsAtOnce == closureFetchingProfile

FetchProfileCall(u, origin) ==
    IF FetchProfileReturnsAtOnce
    THEN UNCHANGED <<fetchingProfile, fetches>>
    ELSE /\ HasFreeSlot
         /\ fetchingProfile' = TRUE
         /\ fetches' = [fetches EXCEPT ![FreeSlot] = Pending(u, origin)]

InitSetAndFetchForgetsUser(s, u, tag) ==
    /\ session' = s
    /\ FetchProfileCall(u, "init")
    /\ IF FetchProfileReturnsAtOnce
       THEN InitFinally(tag) /\ ev' = Ev("initDone", "")
       ELSE /\ init' = [tag EXCEPT !.pc = "awaitFetch"]
            /\ ev' = Ev("init", "")
            /\ UNCHANGED initializationComplete
    /\ UNCHANGED <<user, profile, loading, signingOut>>

InitSetAndFetchFlagsEarly(s, u, tag) ==
    /\ session' = s
    /\ user' = u
    /\ FetchProfileCall(u, "init")
    /\ initializationComplete' = TRUE
    /\ IF FetchProfileReturnsAtOnce
       THEN init' = [tag EXCEPT !.pc = "done"] /\ ev' = Ev("initDone", "")
       ELSE init' = [tag EXCEPT !.pc = "awaitFetch"] /\ ev' = Ev("init", "")
    /\ UNCHANGED <<profile, loading, signingOut>>

\* setSession, setUser, await fetchProfile: lines 368-370, 386-388, 402-404
InitSetAndFetch(s, u, tag) ==
    /\ session' = s
    /\ user' = u
    /\ FetchProfileCall(u, "init")
    /\ IF FetchProfileReturnsAtOnce
       THEN InitFinally(tag) /\ ev' = Ev("initDone", "")
       ELSE /\ init' = [tag EXCEPT !.pc = "awaitFetch"]
            /\ ev' = Ev("init", "")
            /\ UNCHANGED initializationComplete
    /\ UNCHANGED <<profile, loading, signingOut>>

\* the clear branches followed by the finally block
InitClearAndFinishSkipsClear(tag) ==
    /\ loading' = FALSE
    /\ InitFinally(tag)
    /\ ev' = Ev("initDone", "")
    /\ UNCHANGED <<session, user, profile, fetchingProfile, signingOut,
                   fetches>>

InitClearAndFinish(tag) ==
    /\ ClearAuth
    /\ InitFinally(tag)
    /\ ev' = Ev("initDone", "")
    /\ UNCHANGED <<fetchingProfile, signingOut, fetches>>

\* `if (!isMounted) return`, lines 361, 384, 396, then the finally block
InitReturnUnmounted(tag) ==
    /\ InitFinally(tag)
    /\ ev' = Ev("initDone", "")
    /\ UNCHANGED <<state, fetches>>

\* the catch block up to its await, lines 395-399
InitCatch(tag) ==
    IF ~isMounted
    THEN InitReturnUnmounted(tag)
    ELSE /\ init' = [tag EXCEPT !.pc = "catchGetSession"]
         /\ ev' = Ev("init", "")
         /\ UNCHANGED <<state, fetches, initializationComplete>>

\* --------------------------------------------------- initializeAuth 352-420
GetUserOutcomes ==
    {"timeout", "throw", "networkError", "otherError", "noUser"} \cup Users

\* The race of getUser against the 10s timer settles (line 359).
InitGetUserSettled(o) ==
    /\ init.pc = "getUser"
    /\ LET tag == [init EXCEPT !.getUser = IF o \in Users THEN "user" ELSE o]
       IN  CASE o \in {"timeout", "throw"} -> InitCatch(tag)
             [] ~isMounted -> InitReturnUnmounted(tag)
             [] o = "networkError" ->
                    /\ init' = [tag EXCEPT !.pc = "errGetSession"]
                    /\ ev' = Ev("init", "")
                    /\ UNCHANGED <<state, fetches, initializationComplete>>
             [] o \in {"otherError", "noUser"} -> InitClearAndFinish(tag)
             [] OTHER ->
                    /\ init' = [tag EXCEPT !.pc = "okGetSession", !.user = o]
                    /\ ev' = Ev("init", "")
                    /\ UNCHANGED <<state, fetches, initializationComplete>>
    /\ UNCHANGED <<isMounted, signOuts, upd, notifs>>

GetSessionOutcomes == Sessions \cup {None, "throw"}

\* One of the three getSession calls settles (lines 365, 383, 399).
InitGetSessionSettled(o) ==
    /\ init.pc \in {"errGetSession", "okGetSession", "catchGetSession"}
    /\ LET tag == [init EXCEPT !.getSession =
                        IF o \in Sessions THEN "session"
                        ELSE IF o = None THEN "null" ELSE "throw"]
       IN  CASE init.pc = "errGetSession" /\ o \in Sessions ->
                    InitSetAndFetch(o, UserOf(o), tag)
             [] init.pc = "errGetSession" /\ o = None ->
                    InitClearAndFinish(tag)
             [] init.pc \in {"errGetSession", "okGetSession"} /\ o = "throw" ->
                    InitCatch(tag)
             [] init.pc = "okGetSession" /\ o # "throw" ->
                    IF ~isMounted
                    THEN InitReturnUnmounted(tag)
                    ELSE InitSetAndFetch(o, init.user, tag)
             [] init.pc = "catchGetSession" /\ o \in Sessions ->
                    InitSetAndFetch(o, UserOf(o), tag)
             [] init.pc = "catchGetSession" /\ o \notin Sessions ->
                    InitClearAndFinish(tag)
    /\ UNCHANGED <<isMounted, signOuts, upd, notifs>>

\* ----------------------------------------------------- fetchProfile 474-495
LookupOutcomes == {"rowExists", "rowIncomplete", "notFound", "error", "reject"}

ProfileAfterLookupDropsRow(f, o) ==
    CASE o \in {"rowExists", "rowIncomplete", "notFound"} -> NoProfile
      [] OTHER -> IF closureProfile = NoProfile THEN NoProfile ELSE profile

ProfileAfterLookup(f, o) ==
    CASE o = "rowExists" -> Row(f.userId, TRUE)
      [] o = "rowIncomplete" -> Row(f.userId, FALSE)
      [] o = "notFound" -> NoProfile
      [] OTHER -> IF closureProfile = NoProfile THEN NoProfile ELSE profile

\* The race of the lookup against the 5s timer settles; the code after the
\* await and the finally block run, and an awaiting initializeAuth resumes
\* in the same turn and runs its own finally block.
\* The 10s maxTimeout timer of lines 458-461 is armed before the 5s timer
\* of the race and is cleared at line 492 in the turn the race settles, so
\* its callback never runs and has no action here.
FetchSettled(i, o) ==
    /\ fetches[i].st = "pending"
    /\ profile' = ProfileAfterLookup(fetches[i], o)
    /\ fetchingProfile' = FALSE
    /\ loading' = FALSE
    /\ fetches' = [fetches EXCEPT ![i] = Idle]
    /\ IF fetches[i].origin = "init"
       THEN InitFinally([init EXCEPT !.lookup = o]) /\ ev' = Ev("initDone", "")
       ELSE ev' = Ev("fetchDone", o) /\ UNCHANGED <<init, initializationComplete>>
    /\ UNCHANGED <<user, session, signingOut, isMounted, signOuts, upd, notifs>>

\* ------------------------------------------- onAuthStateChange 426-445
\* fetches[i].signedOut and init.sawSignedOut record that a notification
\* without a session was handled while the lookup, or initializeAuth, was
\* still running; init.lastNotif records the latest notification handled
\* while initializeAuth was running: the session of a SIGNED_IN,
\* "signedOut" for one without a session, "other" for another event.
NotifShouldFetchStale(e) == e = "SIGNED_IN"

NotifShouldFetch(e) == e = "SIGNED_IN" /\ initializationComplete

MarkSignedOut ==
    [i \in 1..MaxFetches |->
        IF fetches[i].st = "pending"
        THEN [fetches[i] EXCEPT !.signedOut = TRUE]
        ELSE fetches[i]]

NotifClearKeepsSigningOut ==
    /\ profile' = NoProfile
    /\ fetchingProfile' = FALSE
    /\ loading' = FALSE
    /\ UNCHANGED signingOut

\* the clear branch of the handler, lines 432-436
NotifClear ==
    /\ profile' = NoProfile
    /\ fetchingProfile' = FALSE
    /\ loading' = FALSE
    /\ signingOut' = FALSE

Notification(e, s) ==
    /\ isMounted
    /\ notifs < MaxNotifs
    /\ notifs' = notifs + 1
    /\ session' = s
    /\ user' = IF s = None THEN None ELSE UserOf(s)
    /\ IF e = "SIGNED_OUT" \/ s = None
       THEN /\ NotifClear
            /\ fetches' = MarkSignedOut
            /\ init' = IF init.pc = "done" THEN init
                       ELSE [init EXCEPT !.sawSignedOut = TRUE,
                                         !.lastNotif = "signedOut"]
            /\ ev' = Ev("notifSignedOut", "")
       ELSE /\ IF NotifShouldFetch(e)
               THEN FetchProfileCall(UserOf(s), e)
               ELSE UNCHANGED <<fetchingProfile, fetches>>
            /\ init' = IF init.pc = "done" THEN init
                       ELSE [init EXCEPT !.lastNotif =
                                IF e = "SIGNED_IN" THEN s ELSE "other"]
            /\ ev' = Ev("notif", "")
            /\ UNCHANGED <<profile, loading, signingOut>>
    /\ UNCHANGED <<initializationComplete, isMounted, signOuts, upd>>


\* --------------------------------------------------------- signOut 498-535
\* The view renders only the loading indicator while `loading`
\* (src/src/App.tsx lines 47-56), so no caller of signOut or updateProfile
\* is on screen then.
ViewCanCall == isMounted /\ ~loading

\* lines 499-504, up to the await of the remote sign-out
SignOutBeforeAwaitKeepsProfile ==
    /\ signingOut' = TRUE
    /\ fetchingProfile' = FALSE
    /\ loading' = FALSE
    /\ UNCHANGED <<user, session, profile>>

SignOutBeforeAwait ==
    /\ signingOut' = TRUE
    /\ profile' = NoProfile
    /\ fetchingProfile' = FALSE
    /\ loading' = FALSE
    /\ UNCHANGED <<user, session>>

SignOutStart ==
    /\ ViewCanCall
    /\ signOuts < MaxSignOuts
    /\ signOuts' = signOuts + 1
    /\ SignOutBeforeAwait
    /\ ev' = Ev("signOutStart", "")
    /\ UNCHANGED <<initializationComplete, isMounted, init, fetches, upd, notifs>>

\* The remote sign-out settles: no error, one of the "session missing"
\* errors (509-511), another error (rethrown at 514) or a rejection.
SignOutOutcomes == {"ok", "sessionMissing", "otherError", "throw"}

\* the finally block, lines 520-525
SignOutFinallyKeepsSession ==
    /\ profile' = NoProfile
    /\ fetchingProfile' = FALSE
    /\ loading' = FALSE
    /\ signingOut' = FALSE
    /\ UNCHANGED <<user, session>>

SignOutFinally ==
    /\ session' = None
    /\ user' = None
    /\ profile' = NoProfile
    /\ fetchingProfile' = FALSE
    /\ loading' = FALSE
    /\ signingOut' = FALSE

\* What the promise of signOut() does for each outcome of the remote call:
\* the catch block at 517 swallows the error rethrown at 514 and a rejection.
SignOutResultRethrows(o) ==
    IF o \in {"otherError", "throw"} THEN "signOutRejected" ELSE "signOut"

SignOutResult(o) == "signOut"

SignOutSettled(o) ==
    /\ signOuts > 0
    /\ signOuts' = signOuts - 1
    /\ SignOutFinally
    /\ ev' = Ev(SignOutResult(o), o)
    /\ UNCHANGED <<initializationComplete, isMounted, init, fetches, upd, notifs>>

\* --------------------------------------------------- updateProfile 537-567
\* One call at a time is followed; `upd.user` is the `user` the call closed
\* over; what a call returns is recorded in `ev`.
UpdateProfileNoUserUnchecked == FALSE

UpdateProfileNoUser == user = None

UpdateProfileCallWritesAhead ==
    /\ ViewCanCall
    /\ upd.pc = "idle"
    /\ IF UpdateProfileNoUser
       THEN /\ upd' = [pc |-> "idle", user |-> None]
            /\ ev' = Ev("updateProfile", "NoSession")
            /\ UNCHANGED profile
       ELSE /\ upd' = [pc |-> "getSession", user |-> user]
            /\ ev' = Ev("updateProfile", "pending")
            /\ profile' = Row(user, TRUE)
    /\ UNCHANGED <<user, session, loading, fetchingProfile, signingOut,
                   initializationComplete, isMounted, init, fetches,
                   signOuts, notifs>>

UpdateProfileCall ==
    /\ ViewCanCall
    /\ upd.pc = "idle"
    /\ IF UpdateProfileNoUser
       THEN /\ upd' = [pc |-> "idle", user |-> None]
            /\ ev' = Ev("updateProfile", "NoSession")
       ELSE /\ upd' = [pc |-> "getSession", user |-> user]
            /\ ev' = Ev("updateProfile", "pending")
    /\ UNCHANGED <<state, initializationComplete, isMounted, init, fetches,
                   signOuts, notifs>>

UpdSessionOutcomes == Sessions \cup {None, "error", "throw"}

UpdSessionResultNoIdCheck(o, u) ==
    CASE o = "throw" -> "rejected"
      [] o \in {None, "error"} -> "InvalidSession"
      [] OTHER -> "pending"

\* what line 542 and the test of line 543 make of the lookup's outcome `o`
\* for a call that closed over user `u`: the call rejects when getSession
\* throws (line 542 is outside the try block), returns 'Invalid session',
\* or goes on to the update
UpdSessionResult(o, u) ==
    CASE o = "throw" -> "rejected"
      [] o \in {None, "error"} -> "InvalidSession"
      [] UserOf(o) # u -> "InvalidSession"
      [] OTHER -> "pending"

\* getSession at line 542 settles; `ev.in` records what it gave.
UpdGetSessionSettled(o) ==
    /\ upd.pc = "getSession"
    /\ LET r == UpdSessionResult(o, upd.user)
       IN  /\ upd' = IF r = "pending"
                       THEN [upd EXCEPT !.pc = "update"]
                       ELSE [pc |-> "idle", user |-> None]
           /\ ev' = [op |-> "updateProfile", arg |-> r, in |-> o]
    /\ UNCHANGED <<state, initializationComplete, isMounted, init, fetches,
                   signOuts, notifs>>

UpdateOutcomes == {"rowExists", "rowIncomplete", "notFound", "error", "throw"}

\* the remote update at lines 548-553 settles
UpdUpdateSettled(o) ==
    /\ upd.pc = "update"
    /\ LET r == CASE o \in {"rowExists", "rowIncomplete"} -> "ok"
                  [] o = "notFound" -> "ProfileNotFound"
                  [] OTHER -> "Error"
       IN  /\ upd' = [pc |-> "idle", user |-> None]
           /\ ev' = Ev("updateProfile", r)
           /\ profile' = IF r = "ok"
                         THEN Row(upd.user, o = "rowExists")
                         ELSE profile
    /\ UNCHANGED <<user, session, loading, fetchingProfile, signingOut,
                   initializationComplete, isMounted, init, fetches,
                   signOuts, notifs>>

\* ---------------------------------------------- effect cleanup 447-450
Teardown ==
    /\ isMounted
    /\ isMounted' = FALSE
    /\ ev' = Ev("teardown", "")
    /\ UNCHANGED <<state, initializationComplete, init, fetches, signOuts,
                   upd, notifs>>

\* ==================================================================
\* Query cache: src/src/App.tsx 13-45, src/src/pages/Index.tsx 63-83
\* ==================================================================
\* `qc.data` is the set of users whose rows are held as query data (the
\* data queries have no user in their key and read through the live
\* session); `qc.currentUserId` is the entry ['current-user-id'].
EmptyCache == [data |-> {}, currentUserId |-> None]

\* App.tsx 77-87 and Index.tsx 42-54 render no AuthCacheResetter, and no
\* other source file mounts it: both builds are followed.
CacheInit ==
    /\ qc = EmptyCache
    /\ resetter \in {[mounted |-> m, userIdRef |-> None] : m \in BOOLEAN}

CacheParked ==
    /\ qc = EmptyCache
    /\ resetter = [mounted |-> FALSE, userIdRef |-> None]

\* AuthCacheResetter's effect for a commit whose user id is `u`
\* (Index.tsx 68-79): queryClient.clear() when the id differs from the ref.
ResetterEffect(c, u) ==
    IF resetter.mounted /\ resetter.userIdRef # u THEN EmptyCache ELSE c

\* AppContent's first effect (App.tsx 29-33); it runs when isAuthenticated
\* has changed.
AuthEffect(c, was, is) == IF was # is /\ ~is THEN EmptyCache ELSE c

\* AppContent's second effect (App.tsx 36-45); it runs when user?.id has
\* changed.
UserIdEffect(c, old, u) ==
    IF old = u \/ u = None
    THEN c
    ELSE LET cachedUserId == c.currentUserId
             c1 == IF cachedUserId # None /\ cachedUserId # u
                   THEN EmptyCache ELSE c
         IN  [c1 EXCEPT !.currentUserId = u]

\* The effects React runs after the commit of a controller turn, before
\* any other handler: the resetter's, then AppContent's two in order.
AfterCommit ==
    /\ qc' = UserIdEffect(
                AuthEffect(ResetterEffect(qc, user'),
                           isAuthenticated, isAuthenticated'),
                user, user')
    /\ resetter' = IF resetter.mounted
                   THEN [resetter EXCEPT !.userIdRef = user']
                   ELSE resetter
    /\ UNCHANGED <<screenVars, run>>

\* A data query of the main view (useExpenses, usePonds,
\* useExpenseCategories at Transactions.tsx 16-18) stores what the signed-in
\* user may read.
QueryFills ==
    /\ isMounted /\ Rendered = "main" /\ user # None
    /\ user \notin qc.data
    /\ qc' = [qc EXCEPT !.data = @ \cup {user}]
    /\ UNCHANGED <<authState, ev, resetter, screenVars, run>>

\* cacheTime (App.tsx 17) runs out for the entry written by setQueryData at
\* line 43, which no component observes.
GcCurrentUserId ==
    /\ qc.currentUserId # None
    /\ qc' = [qc EXCEPT !.currentUserId = None]
    /\ UNCHANGED <<authState, ev, resetter, screenVars, run>>

\* ==================================================================
\* Tab navigator and Transactions screen: src/src/pages/Index.tsx 9-40,
\* src/src/screens/Transactions.tsx 16-73, 120-190
\* ==================================================================
Tabs == {"dashboard", "ponds", "add-expense", "reports", "transactions"}
PondIds == {"p1", "p2"}

\* Text is a sequence of characters; a missing text is NoText.
NoText == <<None>>
Lower(c) == CASE c = "A" -> "a" [] c = "B" -> "b" [] c = "F" -> "f"
              [] c = "L" -> "l" [] c = "P" -> "p" [] OTHER -> c
toLowerCase(t) == [i \in 1..Len(t) |-> Lower(t[i])]
includes(t, part) ==
    \E i \in 0..Len(t) :
        i + Len(part) <= Len(t) /\ SubSeq(t, i + 1, i + Len(part)) = part

PondNames == {<<"P", "a">>, <<"P", "b">>}
CategoryNames == {<<"F", "e">>, <<"L", "a">>}
AllPonds == <<"All Ponds">>
AllCategories == <<"All Categories">>
Periods ==
    {"All Time", "This Month", "Last Month", "Last 3 Months", "This Year"}
SortOrders == {"newest", "oldest", "highest", "lowest"}
SearchTerms == {<< >>, <<"a">>, <<"p">>, <<"A", "b">>, <<"z">>}

\* Dates are (year, month) pairs; getTime() orders them as MonthIndex does.
Today == [y |-> 2, m |-> 3]
MonthIndex(d) == d.y * 12 + d.m

ExpensePool ==
    { [description |-> <<"a", "B">>, category_name |-> <<"F", "e">>,
       pond_name |-> <<"P", "a">>, date |-> Today, amount |-> 10],
      [description |-> NoText, category_name |-> <<"L", "a">>,
       pond_name |-> <<"P", "b">>, date |-> [y |-> 2, m |-> 2],
       amount |-> 25],
      [description |-> NoText, category_name |-> <<"F", "e">>,
       pond_name |-> <<"P", "b">>, date |-> [y |-> 1, m |-> 3],
       amount |-> 10],
      [description |-> <<"a", "B">>, category_name |-> <<"L", "a">>,
       pond_name |-> <<"P", "a">>, date |-> [y |-> 1, m |-> 12],
       amount |-> 25] }

WithId(e, i) ==
    [id |-> i, description |-> e.description,
     category_name |-> e.category_name, pond_name |-> e.pond_name,
     date |-> e.date, amount |-> e.amount]

ExpenseLists ==
    UNION { { [i \in 1..n |-> WithId(f[i], i)] : f \in [1..n -> ExpensePool] }
            : n \in 0..MaxExpenses }

\* useState defaults of Transactions, lines 24-29
TxnDefaults ==
    [mounted |-> TRUE, showFilters |-> FALSE, selectedPond |-> AllPonds,
     selectedCategory |-> AllCategories, searchTerm |-> << >>,
     selectedPeriod |-> "All Time", sortOrder |-> "newest"]
TxnUnmounted == [TxnDefaults EXCEPT !.mounted = FALSE]

\* renderActiveScreen, Index.tsx 25-40: Transactions is mounted while
\* activeTab is 'transactions' and keeps its state while it stays so
ScreenFor(tab) ==
    IF tab = activeTab THEN txn
    ELSE IF tab = "transactions" THEN TxnDefaults ELSE TxnUnmounted

ScreensInit ==
    /\ activeTab = "dashboard"
    /\ selectedPondId = None
    /\ txn = TxnUnmounted
    /\ expenses \in ExpenseLists

ScreensParked ==
    /\ activeTab = "dashboard"
    /\ selectedPondId = None
    /\ txn = TxnUnmounted
    /\ expenses = << >>

\* ---------------------------------------------------- Index.tsx 13-28
HandleTabChangeKeepsPond(tab) ==
    /\ UNCHANGED selectedPondId
    /\ activeTab' = tab
    /\ txn' = ScreenFor(tab)
    /\ ev' = [op |-> "handleTabChange", arg |-> tab, from |-> activeTab,
              pond |-> selectedPondId]
    /\ UNCHANGED <<authState, cacheVars, expenses, run>>

\* handleTabChange, lines 18-23 (BottomNav's onTabChange)
HandleTabChange(tab) ==
    /\ selectedPondId' = IF tab # "add-expense" THEN None ELSE selectedPondId
    /\ activeTab' = tab
    /\ txn' = ScreenFor(tab)
    /\ ev' = [op |-> "handleTabChange", arg |-> tab, from |-> activeTab,
              pond |-> selectedPondId]
    /\ UNCHANGED <<authState, cacheVars, expenses, run>>

\* handleAddExpenseForPond, lines 13-16; only Dashboard is given it
HandleAddExpenseForPond(pondId) ==
    /\ activeTab = "dashboard"
    /\ selectedPondId' = pondId
    /\ activeTab' = "add-expense"
    /\ txn' = ScreenFor("add-expense")
    /\ ev' = Ev("handleAddExpenseForPond", pondId)
    /\ UNCHANGED <<authState, cacheVars, expenses, run>>

\* onNavigateToTransactions, line 28; only Dashboard is given it
NavigateToTransactions ==
    /\ activeTab = "dashboard"
    /\ activeTab' = "transactions"
    /\ txn' = ScreenFor("transactions")
    /\ ev' = Ev("onNavigateToTransactions", "")
    /\ UNCHANGED <<authState, cacheVars, selectedPondId, expenses, run>>

\* ---------------------------------------------- Transactions.tsx 120-190
ScreenFrame ==
    /\ ev' = Ev("filter", "")
    /\ UNCHANGED <<authState, cacheVars, activeTab, selectedPondId,
                   expenses, run>>

\* the Filters button, line 120
ToggleFilters ==
    /\ txn.mounted
    /\ txn' = [txn EXCEPT !.showFilters = ~@]
    /\ ScreenFrame

\* the controls of the filters panel, lines 129-190
SetSelectedPond(v) ==
    /\ txn.mounted /\ txn.showFilters
    /\ txn' = [txn EXCEPT !.selectedPond = v]
    /\ ScreenFrame

SetSelectedCategory(v) ==
    /\ txn.mounted /\ txn.showFilters
    /\ txn' = [txn EXCEPT !.selectedCategory = v]
    /\ ScreenFrame

SetSelectedPeriod(v) ==
    /\ txn.mounted /\ txn.showFilters
    /\ txn' = [txn EXCEPT !.selectedPeriod = v]
    /\ ScreenFrame

SetSortOrder(v) ==
    /\ txn.mounted /\ txn.showFilters
    /\ txn' = [txn EXCEPT !.sortOrder = v]
    /\ ScreenFrame

SetSearchTerm(v) ==
    /\ txn.mounted /\ txn.showFilters
    /\ txn' = [txn EXCEPT !.searchTerm = v]
    /\ ScreenFrame

\* ------------------------------------------------ Transactions.tsx 51-73
\* the filter callback, lines 52-60
matchesSearch(expense) ==
    LET term == toLowerCase(txn.searchTerm)
        has(t) == t # NoText /\ includes(toLowerCase(t), term)
    IN  \/ has(expense.description)
        \/ has(expense.category_name)
        \/ has(expense.pond_name)
matchesPond(expense) ==
    txn.selectedPond = AllPonds \/ expense.pond_name = txn.selectedPond
matchesCategory(expense) ==
    \/ txn.selectedCategory = AllCategories
    \/ expense.category_name = txn.selectedCategory
Kept(expense) ==
    matchesSearch(expense) /\ matchesPond(expense) /\ matchesCategory(expense)

\* the comparator of lines 61-71: TRUE when it is negative for (a, b)
Before(a, b) ==
    CASE txn.sortOrder = "newest" -> MonthIndex(a.date) > MonthIndex(b.date)
      [] txn.sortOrder = "oldest" -> MonthIndex(a.date) < MonthIndex(b.date)
      [] txn.sortOrder = "highest" -> a.amount > b.amount
      [] OTHER -> a.amount < b.amount

\* Array.prototype.sort is stable: x goes before the first element it
\* must precede
RECURSIVE InsertSorted(_, _)
InsertSorted(x, s) ==
    IF s = << >> THEN <<x>>
    ELSE IF Before(x, Head(s)) THEN <<x>> \o s
    ELSE <<Head(s)>> \o InsertSorted(x, Tail(s))

RECURSIVE StableSort(_)
StableSort(s) ==
    IF s = << >> THEN << >>
    ELSE InsertSorted(s[Len(s)], StableSort(SubSeq(s, 1, Len(s) - 1)))

filteredTransactions == StableSort(SelectSeq(expenses, Kept))

RECURSIVE SumAmounts(_)
SumAmounts(s) ==
    IF s = << >> THEN 0 ELSE Head(s).amount + SumAmounts(Tail(s))

\* line 73, and the count shown at lines 199 and 213
totalAmount == SumAmounts(filteredTransactions)
shownCount == Len(filteredTransactions)

\* ==================================================================
\* Weekly-summary scripts: src/app/api/send-summaries/route.js 50-94,
\* src/send-summaries-test.js 47-97,
\* src/supabase/functions/send-transaction-summary/index.ts 35-73
\* ==================================================================
\* A run is followed from the top of its loop over the fetched profiles.
\* `users[i]` tells whether profile i has a non-empty email; `processed`
\* and `delivered` record the profiles whose iteration was entered and
\* whose mail was accepted.
Scripts == {"route", "test", "function"}
UserLists == UNION {[1..n -> BOOLEAN] : n \in 0..MaxUsers}

RunParked ==
    run = [script |-> None, users |-> << >>, i |-> 0, pc |-> "idle",
           sentCount |-> 0, processed |-> {}, delivered |-> {}]

\* the head of the loop body for profile r.i: the function skips a profile
\* without email (index.ts 36), every script then queries its expenses
RECURSIVE EnterIteration(_)
EnterIteration(r) ==
    IF r.i > Len(r.users)
    THEN [r EXCEPT !.pc = "done"]
    ELSE IF r.script = "function" /\ ~r.users[r.i]
    THEN EnterIteration([r EXCEPT !.i = @ + 1, !.processed = @ \cup {r.i}])
    ELSE [r EXCEPT !.pc = "query", !.processed = @ \cup {r.i}]

\* route.js 39-41 and send-summaries-test.js 35-38 leave before the loop
\* when no profile was fetched
RunInit ==
    \E sc \in Scripts, us \in UserLists :
        /\ sc # "function" => Len(us) > 0
        /\ run = EnterIteration(
                    [script |-> sc, users |-> us, i |-> 1, pc |-> "query",
                     sentCount |-> 0, processed |-> {}, delivered |-> {}])

ContinueLoop(r) == EnterIteration([r EXCEPT !.i = @ + 1])

ExpenseOutcomes == {"rows", "error", "noData"}

\* the expenses query settles: route.js 53-66, test 49-65, index.ts 38-45
ExpensesSettled(o) ==
    /\ run.pc = "query"
    /\ run' = IF o = "rows" THEN [run EXCEPT !.pc = "send"]
              ELSE ContinueLoop(run)
    /\ UNCHANGED <<authState, ev, cacheVars, screenVars>>

\* "sent": the mail was accepted; "refused": the mail service answered
\* with an error; "rejected": the request itself failed
SendOutcomes == {"sent", "refused", "rejected"}

\* sendMail (route.js 75-91, test 80-96) throws for "refused" and
\* "rejected" and the catch block goes on; fetch (index.ts 58-70) resolves
\* for "refused" and throws for "rejected", outside any try block
SendSettled(o) ==
    /\ run.pc = "send"
    /\ (run.script # "function" /\ ~run.users[run.i]) => o # "sent"
    /\ LET r == [run EXCEPT
                    !.delivered = IF o = "sent" THEN @ \cup {run.i} ELSE @,
                    !.sentCount = IF run.script = "route" /\ o = "sent"
                                  THEN @ + 1 ELSE @]
       IN  run' = IF run.script = "function" /\ o = "rejected"
                  THEN [r EXCEPT !.pc = "crashed"]
                  ELSE ContinueLoop(r)
    /\ UNCHANGED <<authState, ev, cacheVars, screenVars>>

\* ------------------------------------------------------------------ Next
Init == AuthInit /\ CacheParked /\ ScreensParked /\ RunParked

appVars == <<qc, resetter, activeTab, selectedPondId, txn, expenses, run>>

Next ==
    \/ (\E o \in GetUserOutcomes : InitGetUserSettled(o))
            /\ UNCHANGED appVars
    \/ (\E o \in GetSessionOutcomes : InitGetSessionSettled(o))
            /\ UNCHANGED appVars
    \/ (\E i \in 1..MaxFetches, o \in LookupOutcomes : FetchSettled(i, o))
            /\ UNCHANGED appVars
    \/ (\E n \in Notifications : Notification(n[1], n[2]))
            /\ UNCHANGED appVars
    \/ SignOutStart /\ UNCHANGED appVars
    \/ (\E o \in SignOutOutcomes : SignOutSettled(o)) /\ UNCHANGED appVars
    \/ UpdateProfileCall /\ UNCHANGED appVars
    \/ (\E o \in UpdSessionOutcomes : UpdGetSessionSettled(o))
            /\ UNCHANGED appVars
    \/ (\E o \in UpdateOutcomes : UpdUpdateSettled(o)) /\ UNCHANGED appVars
    \/ Teardown /\ UNCHANGED appVars

Spec == Init /\ [][Next]_vars

\* The controller with the query cache: after each of its turns React
\* commits and runs the effects of AppContent and AuthCacheResetter.
InitCache == AuthInit /\ CacheInit /\ ScreensParked /\ RunParked

NextCache ==
    \/ (\E o \in GetUserOutcomes : InitGetUserSettled(o)) /\ AfterCommit
    \/ (\E o \in GetSessionOutcomes : InitGetSessionSettled(o))
            /\ AfterCommit
    \/ (\E i \in 1..MaxFetches, o \in LookupOutcomes : FetchSettled(i, o))
            /\ AfterCommit
    \/ (\E n \in Notifications : Notification(n[1], n[2])) /\ AfterCommit
    \/ SignOutStart /\ AfterCommit
    \/ (\E o \in SignOutOutcomes : SignOutSettled(o)) /\ AfterCommit
    \/ QueryFills
    \/ GcCurrentUserId

SpecCache == InitCache /\ [][NextCache]_vars

\* The tab navigator with the Transactions screen.
InitScreens == AuthInit /\ CacheParked /\ ScreensInit /\ RunParked

NextScreens ==
    \/ \E tab \in Tabs : HandleTabChange(tab)
    \/ \E pondId \in PondIds : HandleAddExpenseForPond(pondId)
    \/ NavigateToTransactions
    \/ ToggleFilters
    \/ \E v \in PondNames \cup {AllPonds} : SetSelectedPond(v)
    \/ \E v \in CategoryNames \cup {AllCategories} : SetSelectedCategory(v)
    \/ \E v \in Periods : SetSelectedPeriod(v)
    \/ \E v \in SortOrders : SetSortOrder(v)
    \/ \E v \in SearchTerms : SetSearchTerm(v)

SpecScreens == InitScreens /\ [][NextScreens]_vars

\* One run of a weekly-summary script.
InitSummaries == AuthInit /\ CacheParked /\ ScreensParked /\ RunInit

NextSummaries ==
    \/ \E o \in ExpenseOutcomes : ExpensesSettled(o)
    \/ \E o \in SendOutcomes : SendSettled(o)

SpecSummaries == InitSummaries /\ [][NextSummaries]_vars

\* The two races against a timer (lines 359 and 474) settle at the latest
\* when their timer fires.
FairRaced ==
    /\ Spec
    /\ WF_vars((\E o \in GetUserOutcomes : InitGetUserSettled(o))
                    /\ UNCHANGED appVars)
    /\ WF_vars((\E i \in 1..MaxFetches, o \in LookupOutcomes :
                    FetchSettled(i, o)) /\ UNCHANGED appVars)

\* In addition every getSession call of initializeAuth (lines 365, 383, 399,
\* awaited without a timer) returns or throws.
FairInit ==
    /\ FairRaced
    /\ WF_vars((\E o \in GetSessionOutcomes : InitGetSessionSettled(o))
                    /\ UNCHANGED appVars)

TypeOK ==
    /\ user \in Users \cup {None}
    /\ session \in Sessions \cup {None}
    /\ profile \in Rows \cup {NoProfile}
    /\ loading \in BOOLEAN /\ fetchingProfile \in BOOLEAN
    /\ signingOut \in BOOLEAN /\ initializationComplete \in BOOLEAN
    /\ isMounted \in BOOLEAN
    /\ signOuts \in 0..MaxSignOuts
    /\ notifs \in 0..MaxNotifs

\* ==================================================================
\* Properties
\* ==================================================================

Started(i) == fetches[i].st = "idle" /\ fetches'[i].st = "pending"
Finished(i) == fetches[i].st = "pending" /\ fetches'[i].st = "idle"
Cleared ==
    /\ user = None /\ session = None /\ profile = NoProfile
    /\ ~loading /\ ~fetchingProfile /\ ~signingOut

\* C1: at most one fetchProfile lookup is in flight at any time (a call
\* made while a lookup is pending starts no second lookup).
C1_OneLookupInFlight == Cardinality(InFlight) <= 1

\* C2: a lookup started by the notification handler is started for a
\* SIGNED_IN event with a live session, for that session's user, at a time
\* when initializationComplete is already true; a lookup that starts before
\* initializationComplete is true is the one initializeAuth starts.
C2_NotifFetchOnlyAfterInit ==
    [][\A i \in 1..MaxFetches :
          /\ (Started(i) /\ fetches'[i].origin # "init") =>
                /\ initializationComplete
                /\ ev'.op = "notif"
                /\ fetches'[i].origin = "SIGNED_IN"
                /\ session' # None
                /\ fetches'[i].userId = UserOf(session')
          /\ (Started(i) /\ ~initializationComplete) =>
                /\ fetches'[i].origin = "init"
                /\ ev'.op = "init"]_vars

C2_Witness ==
    /\ ev.op = "notif"
    /\ \E i \in InFlight : fetches[i].origin = "SIGNED_IN"

\* C3: a lookup during which a signed-out notification was handled, and
\* which completes while the controller is still signed out, leaves profile
\* null whatever it returns.
C3_LateLookupDoesNotResurrect ==
    [][\A i \in 1..MaxFetches :
          (Finished(i) /\ fetches[i].signedOut /\ session = None)
              => (profile' = NoProfile /\ session' = None)]_vars

\* C4: a cached profile implies a cached session.
C4_ProfileImpliesSession == profile # NoProfile => session # None

\* C5: in the state signOut() leaves when the remote sign-out returned no
\* error or a "session missing" error, user, session and profile are null
\* and loading, fetchingProfile and signingOut are false.
C5_SignOutResolvedCleared ==
    (ev.op = "signOut" /\ ev.arg \in {"ok", "sessionMissing"}) => Cleared

C5_Witness ==
    /\ ev = Ev("signOut", "sessionMissing")
    /\ initializationComplete
    /\ \E i \in InFlight : fetches[i].origin = "SIGNED_IN"

\* C6: needsProfile is false in every state where signingOut is true.
C6_NoNeedsProfileWhileSigningOut == signingOut => ~needsProfile

C6_Witness ==
    /\ signingOut
    /\ session # None /\ profile = NoProfile
    /\ ~loading /\ ~fetchingProfile

\* C7 as stated: while a remote sign-out is awaited isAuthenticated is false.
C7_NotAuthenticatedDuringRemoteSignOut == signOuts > 0 => ~isAuthenticated

\* C7 amended: up to its await signOut() sets signingOut and clears profile,
\* fetchingProfile and loading, and leaves user and session as they were.
C7_SignOutStartClearsProfileOnly ==
    [][ev'.op = "signOutStart" =>
          /\ signingOut' /\ profile' = NoProfile
          /\ ~fetchingProfile' /\ ~loading'
          /\ user' = user /\ session' = session]_vars

C7_Witness ==
    /\ ev.op = "signOutStart"
    /\ signOuts > 0 /\ signingOut
    /\ session # None /\ user # None

InitViaTimeoutFallback ==
    /\ ev.op = "initDone"
    /\ init.getUser = "timeout"
    /\ init.getSession = "session"

\* C8 as stated: when getUser timed out and getSession returned a session,
\* initializeAuth ends with session and user set and loading false.
C8_TimeoutFallbackEndsAuthenticated ==
    InitViaTimeoutFallback => (session # None /\ user # None /\ ~loading)

\* C8 amended: the same, provided no notification without a session was
\* handled while initializeAuth was running.
C8_TimeoutFallbackUnlessSignedOut ==
    (InitViaTimeoutFallback /\ ~init.sawSignedOut)
        => (session # None /\ user # None /\ ~loading)

C8_Witness ==
    /\ InitViaTimeoutFallback /\ ~init.sawSignedOut
    /\ notifs > 0
    /\ session # None /\ ~loading

\* C9: after a load where getUser returned a user, getSession a session and
\* no notification was handled, the controller is authenticated; a row with
\* exists = true gives isFullyReady and not needsProfile; a row with
\* exists = false, or "not found", gives needsProfile and not isFullyReady.
C9_FreshLoadFlags ==
    (/\ ev.op = "initDone" /\ notifs = 0
     /\ init.getUser = "user" /\ init.getSession = "session"
     /\ init.lookup # "notcalled")
        => /\ isAuthenticated
           /\ init.lookup = "rowExists" => (isFullyReady /\ ~needsProfile)
           /\ init.lookup \in {"rowIncomplete", "notFound"}
                => (needsProfile /\ ~isFullyReady /\ 
                    (init.lookup = "notFound" => profile = NoProfile))

C9_Witness ==
    /\ ev.op = "initDone" /\ notifs = 0
    /\ init.getUser = "user" /\ init.getSession = "session"
    /\ init.lookup = "rowIncomplete"
    /\ needsProfile /\ profile # NoProfile

\* C10: updateProfile called while user is null returns the "No user
\* session" error and leaves no remote call (session lookup or update)
\* in flight.
C10_UpdateWithoutUser ==
    [][(ev'.op = "updateProfile" /\ upd.pc = "idle" /\ user = None)
          => (ev'.arg = "NoSession" /\ upd'.pc = "idle")]_vars

C10_Witness ==
    /\ ev = Ev("updateProfile", "NoSession")
    /\ upd.pc = "idle" /\ user = None

InitCompletes == init.pc # "done" /\ init'.pc = "done"
InitFetchFinished ==
    \E i \in 1..MaxFetches : Finished(i) /\ fetches[i].origin = "init"
LookupFailed ==
    \/ ev'.op = "fetchDone" /\ ev'.arg \in {"error", "reject"}
    \/ ev'.op = "initDone" /\ init'.lookup \in {"error", "reject"}

\* C12: the view shows the loading indicator while loading, the profile
\* form while needsProfile, the main application while isFullyReady and
\* the sign-in form otherwise.
C12_ViewContract ==
    /\ loading => Rendered = "loading"
    /\ (~loading /\ needsProfile) => Rendered = "profileSetup"
    /\ (~loading /\ isFullyReady) => Rendered = "main"
    /\ (~loading /\ ~needsProfile /\ ~isFullyReady) => Rendered = "signIn"

\* C13: when the remote sign-out fails with an error that is not a
\* "session missing" one, or rejects, signOut() still resolves and leaves
\* user, session and profile null and the three flags false.
C13_SignOutSwallowsErrors ==
    [][(signOuts' < signOuts /\ ev'.arg \in {"otherError", "throw"})
          => (ev'.op = "signOut" /\ Cleared')]_vars

C13_Witness ==
    /\ ev = Ev("signOut", "otherError")
    /\ Cleared /\ initializationComplete

\* C14: when the latest notification handled while initializeAuth was
\* running is a SIGNED_IN with a session, then at the step initializeAuth
\* completes the controller holds that session and its user, and the
\* lookup initializeAuth awaited was for that user.
C14_SignedInDuringInitKept ==
    [][(InitCompletes /\ isMounted /\ init.lastNotif \in Sessions)
          => /\ session' = init.lastNotif
             /\ user' = UserOf(init.lastNotif)
             /\ \E i \in 1..MaxFetches :
                    /\ Finished(i) /\ fetches[i].origin = "init"
                    /\ fetches[i].userId = UserOf(init.lastNotif)]_vars

\* C15: a lookup that fails with an error other than "not found", or
\* rejects (thrown exception, 5s timeout), leaves profile as it was.
C15_FailedLookupKeepsProfile ==
    [][((\E i \in 1..MaxFetches : Finished(i)) /\ LookupFailed)
          => profile' = profile]_vars

\* C17: user and session are both null or both non-null.
C17_UserIffSession == (user = None) <=> (session = None)

\* C18: at the step that sets initializationComplete (controller still
\* mounted) either user, session and profile are null and loading is
\* false, or initializeAuth had set user and session and the lookup it
\* started has completed in that step; and initializeAuth never finishes
\* without setting it.
C18_FlagSetAfterOutcome ==
    [][/\ (~initializationComplete /\ initializationComplete' /\ isMounted)
            => \/ /\ user' = None /\ session' = None /\ profile' = NoProfile
                  /\ ~loading'
               \/ /\ init.pc = "awaitFetch" /\ InitFetchFinished
                  /\ ~loading' /\ ~fetchingProfile'
       /\ init'.pc = "done" => initializationComplete']_vars

C18_Witness ==
    /\ ev.op = "initDone" /\ initializationComplete
    /\ init.getUser = "timeout" /\ init.getSession = "session"
    /\ init.lookup = "reject"
    /\ session # None

\* C19: once the effect cleanup has run, no step changes user, session,
\* profile, loading, fetchingProfile, signingOut or initializationComplete.
C19_NoWriteAfterTeardown ==
    [][~isMounted =>
          (state' = state /\ initializationComplete' = initializationComplete)]_vars

\* C20: when the latest notification handled while initializeAuth was
\* running is one without a session, user and session are null at the
\* step initializeAuth completes.
C20_SignedOutDuringInitKept ==
    [][(InitCompletes /\ isMounted /\ init.lastNotif = "signedOut")
          => (user' = None /\ session' = None)]_vars

C16_NothingPendsForever ==
    /\ <>(init.pc = "done")
    /\ (InFlight # {}) ~> (InFlight = {})
    /\ (signOuts > 0) ~> (signOuts = 0)
    /\ (upd.pc # "idle") ~> (upd.pc = "idle")
    /\ signingOut ~> ~signingOut
    /\ loading ~> (~loading \/ ~isMounted)

\* C21: whenever a profile is cached and a user is held, the profile is
\* that user's (profile.id = user.id), also after a notification put
\* another user's session in place and while the lookup for that user runs.
C21_ProfileBelongsToUser ==
    (profile # NoProfile /\ user # None) => profile.id = user

\* a step in which updateProfile returns to its caller or goes on
UpdateProfileStep == ev'.op = "updateProfile" /\ upd' # upd

\* C22: updateProfile changes the cached profile exactly when it returns
\* success, then to the returned row of its user, and every failure comes
\* back to the caller as a result value (never as a rejected promise).
C22_UpdateProfileFrame ==
    [][UpdateProfileStep =>
          /\ profile' # profile => ev'.arg = "ok"
          /\ ev'.arg = "ok" => profile' \in Rows /\ profile'.id = upd.user
          /\ ev'.arg \in {"pending", "ok", "NoSession", "InvalidSession",
                           "ProfileNotFound", "Error"}]_vars

\* C23: when the live session lookup of updateProfile returns an error, no
\* session, or a session of another user than the cached one, the call
\* returns InvalidSession and issues no remote update (and leaves profile).
C23_BadSessionIsInvalidSession ==
    [][(upd.pc = "getSession" /\ upd' # upd) =>
          LET o == ev'.in
          IN  (\/ o \in {None, "error"}
               \/ (o \in Sessions /\ UserOf(o) # upd.user))
              => /\ ev'.arg = "InvalidSession"
                 /\ upd'.pc = "idle"
                 /\ profile' = profile]_vars

C23_Witness ==
    /\ ev.op = "updateProfile" /\ ev.arg = "InvalidSession"
    /\ ev.in \in Sessions /\ user # None /\ UserOf(ev.in) # user
    /\ upd.pc = "idle"

\* C24: right after the handler has run for SIGNED_OUT or for a
\* notification without a session, user, session and profile are None and
\* fetchingProfile, loading and signingOut are false, whatever came before.
C24_SignedOutNotificationClears == ev.op = "notifSignedOut" => Cleared

C24_Witness ==
    /\ ev.op = "notifSignedOut" /\ Cleared
    /\ signOuts > 0 /\ InFlight # {}

\* a step that ends a profile lookup or the remote update of updateProfile
ByFetchOrUpdate ==
    \/ \E i \in 1..MaxFetches : Finished(i)
    \/ upd.pc = "update" /\ upd'.pc = "idle"

\* C25 as stated: profile changes only in a step of fetchProfile or of
\* updateProfile; initializeAuth, signOut and the handler never change it.
C25_OnlyFetchAndUpdateChangeProfile ==
    [][profile' # profile => ByFetchOrUpdate]_vars

\* C25 amended: only fetchProfile and updateProfile put a row into profile;
\* initializeAuth, signOut and the notification handler change profile only
\* by clearing it to None.
C25_OnlyFetchAndUpdateWriteARow ==
    [][(profile' # profile /\ profile' # NoProfile) => ByFetchOrUpdate]_vars

C25_Witness ==
    /\ ev.op = "updateProfile" /\ ev.arg = "ok"
    /\ profile \in Rows /\ user = None

\* initializeAuth found nobody: getUser gave no user or a non-network
\* error, or the getSession fallback after a timeout, a network error or an
\* exception gave no session or threw.
InitFoundNoUser ==
    \/ init.getUser \in {"noUser", "otherError"}
    \/ /\ init.getUser \in {"timeout", "networkError", "throw"}
       /\ init.getSession \in {"null", "throw"}

\* C26: when initializeAuth of a mounted controller finishes having found
\* no authenticated user, user, session and profile are None and loading is
\* false.
C26_NoUserFoundClears ==
    (ev.op = "initDone" /\ isMounted /\ InitFoundNoUser) =>
        /\ user = None /\ session = None /\ profile = NoProfile
        /\ ~loading

C26_Witness ==
    /\ ev.op = "initDone" /\ isMounted
    /\ init.getUser = "networkError" /\ init.getSession = "throw"
    /\ notifs > 0
    /\ user = None /\ ~loading

\* C27: query data cached under one user id is never in the cache while
\* another user id is the current one (every change of the user id clears
\* the cache).
C27_CacheHoldsOnlyCurrentUsersData ==
    user # None => qc.data \subseteq {user}

\* C28: a run ends only after the loop body was entered for every fetched
\* profile, whatever failed for the profiles before it, and the route's
\* sent count is the number of profiles whose mail was accepted.
C28_RunCoversEveryUser ==
    run.pc \in {"done", "crashed"} =>
        /\ run.processed = 1..Len(run.users)
        /\ run.script = "route" => run.sentCount = Cardinality(run.delivered)

\* what the period select of lines 158-168 names
InPeriod(period, d) ==
    CASE period = "All Time" -> TRUE
      [] period = "This Month" -> MonthIndex(d) = MonthIndex(Today)
      [] period = "Last Month" -> MonthIndex(d) = MonthIndex(Today) - 1
      [] period = "Last 3 Months" ->
            /\ MonthIndex(d) <= MonthIndex(Today)
            /\ MonthIndex(d) + 3 >= MonthIndex(Today)
      [] OTHER -> d.y = Today.y

\* C29: the list shown holds exactly the expenses that match the search
\* term, the selected pond, the selected category and the selected period,
\* and the count and the total shown are those of that list.
C29_ShownMatchesEveryFilter ==
    txn.mounted =>
        LET shown == filteredTransactions
            wanted == {e \in {expenses[i] : i \in 1..Len(expenses)} :
                          Kept(e) /\ InPeriod(txn.selectedPeriod, e.date)}
        IN  /\ {shown[i] : i \in 1..Len(shown)} = wanted
            /\ shownCount = Cardinality(wanted)
            /\ totalAmount = SumAmounts(shown)

\* C30: selectedPondId is non-null only while activeTab is 'add-expense',
\* and a step that leaves the add-expense tab resets it to null.
C30_PondOnlyOnAddExpense ==
    [][/\ selectedPondId' # None => activeTab' = "add-expense"
       /\ (activeTab = "add-expense" /\ activeTab' # "add-expense")
            => selectedPondId' = None]_vars

C30_Witness ==
    /\ ev.op = "handleTabChange" /\ ev.from = "add-expense"
    /\ ev.pond # None
    /\ activeTab = "transactions" /\ selectedPondId = None /\ txn.mounted

====
